---- MODULE Spec2Model ----
(***************************************************************************)
(* Model of the document-parser service                                    *)
(* (src/mcp-servers/document-parser/main.py).                              *)
(*                                                                         *)
(* Strings are sequences of one-character strings, so that split, strip,   *)
(* lower, substring tests and the regular expressions of the source are    *)
(* computed character by character.                                        *)
(*                                                                         *)
(* Four specifications share the variables:                                *)
(*   SpecTables   DocumentParser._extract_tables_from_text                 *)
(*   SpecUnit     DocumentParser._determine_unit                           *)
(*   SpecMetrics  DocumentParser._extract_financial_metrics                *)
(*   SpecServer   parse_document / upload_and_parse on one event loop      *)
(***************************************************************************)
EXTENDS Integers, Sequences, FiniteSets, TLC

VARIABLES
    text,           \* the text argument of the extraction in progress
    pc,             \* position of the extraction in progress
    lines,          \* _extract_tables_from_text: text.split('\n')
    lineIdx,        \* _extract_tables_from_text: index of the next line of the for loop
    current_table,  \* _extract_tables_from_text: the run being accumulated
    tables,         \* _extract_tables_from_text: the tables emitted so far
    context,        \* _determine_unit: the context argument
    unit,           \* _determine_unit: the value returned
    text_lower,     \* _extract_financial_metrics: text.lower()
    match,          \* _extract_financial_metrics: the match of the inner loop
    metrics,        \* _extract_financial_metrics: the records appended so far
    ruleIdx,        \* _extract_financial_metrics: index of the registry entry being scanned
    scanPos,        \* _extract_financial_metrics: where finditer resumes in text_lower
    error,          \* _extract_financial_metrics: the exception that left the function
    fs,             \* server: the directory (path -> inode) and the inodes' contents
    proc,           \* server: each request's position, arguments, open file and response
    parser_calls    \* server: the parser invocations made, in order

tableVars == <<lines, lineIdx, current_table, tables>>
unitVars == <<context, unit>>
metricVars == <<text_lower, match, metrics, ruleIdx, scanPos, error>>
serverVars == <<fs, proc, parser_calls>>
vars == <<text, pc, tableVars, unitVars, metricVars, serverVars>>

\* the parts of the state a specification does not use
IdleTables == lines = <<>> /\ lineIdx = 1 /\ current_table = <<>> /\ tables = <<>>
IdleUnit == context = <<>> /\ unit = "none"
\* no match: what finditer has when it is exhausted
NoMatch == [found |-> FALSE, start |-> 0, end |-> 0, group0 |-> <<>>, group1 |-> <<>>]

IdleMetrics ==
    /\ text_lower = <<>> /\ match = NoMatch /\ metrics = <<>>
    /\ ruleIdx = 1 /\ scanPos = 1 /\ error = "none"
IdleServer == fs = <<>> /\ proc = <<>> /\ parser_calls = <<>>

(***************************************************************************)
(* Characters and strings                                                  *)
(***************************************************************************)
Digits == {"0", "1", "2", "3", "4", "5", "6", "7", "8", "9"}

\* \d of the re module, restricted to ASCII
IsDigit(c) == c \in Digits

\* \s of the re module and the characters str.strip() removes, restricted to ASCII
IsSpace(c) == c \in {" ", "\t", "\n", "\r"}

SetMin(S) == CHOOSE x \in S : \A y \in S : x <= y

SetMax(S) == CHOOSE x \in S : \A y \in S : x >= y

\* str.strip(): leading and trailing whitespace removed
strip(s) ==
    LET keep == {i \in 1..Len(s) : ~IsSpace(s[i])}
    IN  IF keep = {} THEN <<>> ELSE SubSeq(s, SetMin(keep), SetMax(keep))

\* str.split('\n'): always at least one line; a trailing newline gives a last empty line
RECURSIVE split(_)
split(s) ==
    LET nl == {i \in 1..Len(s) : s[i] = "\n"}
    IN  IF nl = {} THEN <<s>>
        ELSE <<SubSeq(s, 1, SetMin(nl) - 1)>> \o split(SubSeq(s, SetMin(nl) + 1, Len(s)))

\* '\n'.join(ls)
RECURSIVE join(_)
join(ls) ==
    IF Len(ls) = 0 THEN <<>>
    ELSE IF Len(ls) = 1 THEN ls[1]
    ELSE ls[1] \o <<"\n">> \o join(Tail(ls))

UpperCase ==
    <<"A","B","C","D","E","F","G","H","I","J","K","L","M",
      "N","O","P","Q","R","S","T","U","V","W","X","Y","Z">>

LowerCase ==
    <<"a","b","c","d","e","f","g","h","i","j","k","l","m",
      "n","o","p","q","r","s","t","u","v","w","x","y","z">>

\* the lower-case letter of each upper-case letter
ToLower ==
    [c \in {UpperCase[i] : i \in 1..Len(UpperCase)} |->
        LowerCase[CHOOSE i \in 1..Len(UpperCase) : UpperCase[i] = c]]

LowerChar(c) == IF c \in DOMAIN ToLower THEN ToLower[c] ELSE c

\* str.lower(), restricted to ASCII
lower(s) == [i \in 1..Len(s) |-> LowerChar(s[i])]

\* s[i:i+len(sub)] == sub
OccursAt(s, sub, i) ==
    /\ i >= 1
    /\ i + Len(sub) - 1 <= Len(s)
    /\ \A n \in 1..Len(sub) : s[i + n - 1] = sub[n]

\* sub in s
Contains(s, sub) == \E i \in 1..(Len(s) - Len(sub) + 1) : OccursAt(s, sub, i)

\* the concatenations of one to n members of a set of strings, and the empty string
RECURSIVE Concats(_, _)
Concats(S, n) ==
    IF n = 0 THEN { <<>> }
    ELSE LET shorter == Concats(S, n - 1)
         IN  shorter \cup { a \o b : a \in shorter, b \in S }

(***************************************************************************)
(* _extract_tables_from_text                                               *)
(***************************************************************************)
\* confidence 0.6 of a text-derived table, in tenths
TABLE_CONFIDENCE == 6

\* the run length a table must exceed: len(current_table) > 2
MIN_TABLE_ROWS == 2

\* re.search(r'\s+\d+.*\d+.*\d+', line): a whitespace character directly followed by
\* a digit, and two more digits further right, with no newline in between ('.' does
\* not match a newline)
IsTableRow(line) ==
    \E i \in 1..(Len(line) - 1) :
        /\ IsSpace(line[i])
        /\ IsDigit(line[i + 1])
        /\ \E k \in (i + 2)..Len(line) :
              /\ IsDigit(line[k])
              /\ \E l \in (k + 1)..Len(line) :
                    /\ IsDigit(line[l])
                    /\ \A n \in (i + 1)..l : line[n] # "\n"

\* the dict appended to tables
Table(rows) == [type |-> "extracted_table", rows |-> rows, confidence |-> TABLE_CONFIDENCE]

\* mutant of RunIsTable: the threshold off by one (len(current_table) >= 2)
RunIsTable_OffByOne(run) == Len(run) >= MIN_TABLE_ROWS

\* len(current_table) > 2
RunIsTable(run) == Len(run) > MIN_TABLE_ROWS

\* the most lines of a text the table detector is run on (before a final newline)
MaxLines == 7

\* the lines the texts are made of: " 1 2 3", "a 4 5 6 " and "1 2 3"
LineVocab ==
    { <<" ","1"," ","2"," ","3">>,
      <<"a"," ","4"," ","5"," ","6"," ">>,
      <<"1"," ","2"," ","3">>  }

\* the texts: up to MaxLines lines joined by newlines, as they are or ended by a
\* newline (parse_pdf ends every page's text with one)
TableTexts ==
    { join(ls) \o nl : ls \in UNION { [1..n -> LineVocab] : n \in 1..MaxLines },
                       nl \in { <<>>, <<"\n">> } }

InitTables ==
    /\ text \in TableTexts
    /\ pc = "split"
    /\ lines = <<>>
    /\ lineIdx = 1
    /\ current_table = <<>>
    /\ tables = <<>>
    /\ IdleUnit /\ IdleMetrics /\ IdleServer

\* lines = text.split('\n'); tables = []; current_table = []
SplitText ==
    /\ pc = "split"
    /\ lines' = split(text)
    /\ lineIdx' = 1
    /\ current_table' = <<>>
    /\ tables' = <<>>
    /\ pc' = "loop"
    /\ UNCHANGED <<text, unitVars, metricVars, serverVars>>

\* if re.search(...): current_table.append(line.strip())
AppendRow ==
    /\ pc = "loop"
    /\ lineIdx <= Len(lines)
    /\ IsTableRow(lines[lineIdx])
    /\ current_table' = Append(current_table, strip(lines[lineIdx]))
    /\ lineIdx' = lineIdx + 1
    /\ UNCHANGED <<text, pc, lines, tables, unitVars, metricVars, serverVars>>

\* elif current_table: emit the run when it has more than two rows, then reset it
CloseRun ==
    /\ pc = "loop"
    /\ lineIdx <= Len(lines)
    /\ ~IsTableRow(lines[lineIdx])
    /\ current_table # <<>>
    /\ tables' = IF RunIsTable(current_table)
                 THEN Append(tables, Table(current_table))
                 ELSE tables
    /\ current_table' = <<>>
    /\ lineIdx' = lineIdx + 1
    /\ UNCHANGED <<text, pc, lines, unitVars, metricVars, serverVars>>

\* neither branch: a non-numeric line with no run open
SkipLine ==
    /\ pc = "loop"
    /\ lineIdx <= Len(lines)
    /\ ~IsTableRow(lines[lineIdx])
    /\ current_table = <<>>
    /\ lineIdx' = lineIdx + 1
    /\ UNCHANGED <<text, pc, lines, current_table, tables, unitVars, metricVars, serverVars>>

\* mutant of ReturnTables: the open run is flushed after the loop
ReturnTables_Flushing ==
    /\ pc = "loop"
    /\ lineIdx > Len(lines)
    /\ tables' = IF RunIsTable(current_table)
                 THEN Append(tables, Table(current_table))
                 ELSE tables
    /\ pc' = "done"
    /\ UNCHANGED <<text, lines, lineIdx, current_table, unitVars, metricVars, serverVars>>

\* return tables: the loop is over, the open run is dropped with the frame
ReturnTables ==
    /\ pc = "loop"
    /\ lineIdx > Len(lines)
    /\ pc' = "done"
    /\ UNCHANGED <<text, tableVars, unitVars, metricVars, serverVars>>

NextTables == SplitText \/ AppendRow \/ CloseRun \/ SkipLine \/ ReturnTables

SpecTables == InitTables /\ [][NextTables]_vars

(***************************************************************************)
(* Properties of _extract_tables_from_text                                 *)
(***************************************************************************)
\* line i matches the detector's pattern
NumericLine(i) == IsTableRow(lines[i])

\* the maximal runs <<a, b>> of consecutive numeric-pattern lines
MaximalRuns ==
    { r \in (1..Len(lines)) \X (1..Len(lines)) :
        /\ r[1] <= r[2]
        /\ \A i \in r[1]..r[2] : NumericLine(i)
        /\ (r[1] = 1 \/ ~NumericLine(r[1] - 1))
        /\ (r[2] = Len(lines) \/ ~NumericLine(r[2] + 1)) }

\* the runs followed by a non-numeric line
ClosedRuns == { r \in MaximalRuns : r[2] < Len(lines) }

\* the trimmed lines of a run, in order
RunRows(r) == [i \in 1..(r[2] - r[1] + 1) |-> strip(lines[r[1] + i - 1])]

\* the closed runs of more than two lines, in the order they closed
LongClosedRuns == { r \in ClosedRuns : r[2] - r[1] + 1 > 2 }

\* a set of runs as the sequence ordered by where each run ends
RunSeq(runs) ==
    CHOOSE f \in [1..Cardinality(runs) -> runs] :
        \A i \in DOMAIN f : \A j \in DOMAIN f : i < j => f[i][2] < f[j][2]

\* C1: when the detector returns, the tables are exactly one table per maximal run of
\* numeric-pattern lines that is followed by a non-numeric line and has more than two
\* lines, each holding the trimmed lines of its run in order with confidence 0.6, in
\* the order the runs closed; closed runs of one or two lines give no table.
C1_ClosedRunsYieldTables ==
    pc = "done" =>
        LET long == LongClosedRuns
            seq == RunSeq(long)
        IN  /\ Len(tables) = Cardinality(long)
            /\ \A n \in 1..Len(tables) :
                  tables[n] = [type |-> "extracted_table",
                               rows |-> RunRows(seq[n]),
                               confidence |-> 6]

\* a text with two long closed runs of different lines: two tables, in order
C1_Witness ==
    /\ pc = "done"
    /\ Len(tables) = 2
    /\ tables[1].rows # tables[2].rows
    /\ Len(tables[1].rows) = 3

\* the run still open at the end of the input (empty when the last line is not numeric)
OpenRun == { r \in MaximalRuns : r[2] = Len(lines) }

\* C2: a run of numeric-pattern lines still open when the input ends is never emitted:
\* when the detector returns, the open run is still in the accumulator, the tables are
\* as many as the long closed runs, and a text of numeric-pattern lines only gives no
\* table.
C2_OpenRunNotEmitted ==
    pc = "done" =>
        LET long == LongClosedRuns
        IN  /\ \A r \in OpenRun : current_table = RunRows(r)
            /\ Len(tables) = Cardinality(long)
            /\ \A n \in 1..Len(tables) : \E c \in long : tables[n].rows = RunRows(c)
            /\ (\A i \in 1..Len(lines) : NumericLine(i)) => tables = <<>>

\* a text of three or more numeric-pattern lines only has returned no table
C2_Witness ==
    /\ pc = "done"
    /\ Len(lines) >= 3
    /\ \A i \in 1..Len(lines) : NumericLine(i)
    /\ tables = <<>>

\* the pattern the claim gives: digits, any characters, digits, any characters, digits,
\* starting anywhere in the line
ThreeDigitRuns(line) ==
    \E j \in 1..Len(line) : \E k \in (j + 1)..Len(line) : \E l \in (k + 1)..Len(line) :
        IsDigit(line[j]) /\ IsDigit(line[k]) /\ IsDigit(line[l])

\* C9: the detector counts a line as a numeric row (appends it to the run) exactly when
\* the line contains digits, then any characters, then digits, then any characters,
\* then digits, wherever the first digits start.
C9_RowIffThreeDigitRuns ==
    [][(pc = "loop" /\ lineIdx <= Len(lines)) =>
         ((current_table' = Append(current_table, strip(lines[lineIdx])))
            <=> ThreeDigitRuns(lines[lineIdx]))]_vars

(***************************************************************************)
(* _determine_unit                                                         *)
(***************************************************************************)
S_billion == <<"b","i","l","l","i","o","n">>
S_million == <<"m","i","l","l","i","o","n">>
S_thousand == <<"t","h","o","u","s","a","n","d">>
S_percent == <<"p","e","r","c","e","n","t">>
S_ratio == <<"r","a","t","i","o">>

\* mutant of determine_unit: the percent and ratio tests come before the magnitude tests
determine_unit_PercentFirst(ctx) ==
    LET context_lower == lower(ctx)
    IN  IF Contains(context_lower, <<"%">>) \/ Contains(context_lower, S_percent)
        THEN "percentage"
        ELSE IF Contains(context_lower, S_ratio)
        THEN "ratio"
        ELSE IF Contains(context_lower, S_billion) \/ Contains(context_lower, <<" ", "b">>)
        THEN "billions"
        ELSE IF Contains(context_lower, S_million) \/ Contains(context_lower, <<" ", "m">>)
        THEN "millions"
        ELSE IF Contains(context_lower, S_thousand) \/ Contains(context_lower, <<" ", "k">>)
        THEN "thousands"
        ELSE "units"

\* the if / elif chain of _determine_unit
determine_unit(ctx) ==
    LET context_lower == lower(ctx)
    IN  IF Contains(context_lower, S_billion) \/ Contains(context_lower, <<" ", "b">>)
        THEN "billions"
        ELSE IF Contains(context_lower, S_million) \/ Contains(context_lower, <<" ", "m">>)
        THEN "millions"
        ELSE IF Contains(context_lower, S_thousand) \/ Contains(context_lower, <<" ", "k">>)
        THEN "thousands"
        ELSE IF Contains(context_lower, <<"%">>) \/ Contains(context_lower, S_percent)
        THEN "percentage"
        ELSE IF Contains(context_lower, S_ratio)
        THEN "ratio"
        ELSE "units"

\* the most fragments a context is made of
MaxContextParts == 3

\* "gross margin: 40", "%", " million", "billion", " thousand", "percent", " ratio",
\* " K", "eps: 5", " book"
ContextVocab ==
    { <<"g","r","o","s","s"," ","m","a","r","g","i","n",":"," ","4","0">>,
      <<"%">>,
      <<" ","m","i","l","l","i","o","n">>,
      <<"b","i","l","l","i","o","n">>,
      <<" ","t","h","o","u","s","a","n","d">>,
      <<"p","e","r","c","e","n","t">>,
      <<" ","r","a","t","i","o">>,
      <<" ","K">>,
      <<"e","p","s",":"," ","5">>,
      <<" ","b","o","o","k">> }

InitUnit ==
    /\ context \in Concats(ContextVocab, MaxContextParts)
    /\ unit = "none"
    /\ pc = "call"
    /\ text = <<>>
    /\ IdleTables /\ IdleMetrics /\ IdleServer

\* one call of _determine_unit
DetermineUnit ==
    /\ pc = "call"
    /\ unit' = determine_unit(context)
    /\ pc' = "returned"
    /\ UNCHANGED <<text, context, tableVars, metricVars, serverVars>>

NextUnit == DetermineUnit

SpecUnit == InitUnit /\ [][NextUnit]_vars

(***************************************************************************)
(* Properties of _determine_unit                                           *)
(***************************************************************************)
IsAlnum(c) == IsDigit(c) \/ \E i \in 1..Len(LowerCase) : c = LowerCase[i] \/ c = UpperCase[i]

\* the letter is a token of its own: no letter or digit directly before or after it
Standalone(s, letter) ==
    \E i \in 1..Len(s) :
        /\ s[i] = letter
        /\ (i = 1 \/ ~IsAlnum(s[i - 1]))
        /\ (i = Len(s) \/ ~IsAlnum(s[i + 1]))

HasPercentCue(s) == Contains(s, <<"%">>) \/ Contains(s, S_percent)

\* C3: billions, millions or thousands is returned only when the context holds the
\* magnitude word or its letter (b, m, k) as a standalone token; a context with none
\* of these gives percentage when it holds '%' or 'percent', else ratio when it holds
\* 'ratio', else units.
C3_MagnitudeOnlyOnWordOrStandaloneLetter ==
    pc = "returned" =>
        LET c == lower(context)
            b == Contains(c, S_billion) \/ Standalone(c, "b")
            m == Contains(c, S_million) \/ Standalone(c, "m")
            k == Contains(c, S_thousand) \/ Standalone(c, "k")
        IN  /\ unit = "billions" => b
            /\ unit = "millions" => m
            /\ unit = "thousands" => k
            /\ ~(b \/ m \/ k) =>
                  unit = IF HasPercentCue(c) THEN "percentage"
                         ELSE IF Contains(c, S_ratio) THEN "ratio"
                         ELSE "units"

UnitTags == <<"billions", "millions", "thousands", "percentage", "ratio", "units">>

\* what _determine_unit looks for, per tag
HasCue(s, tag) ==
    CASE tag = "billions" -> Contains(s, S_billion) \/ Contains(s, <<" ", "b">>)
      [] tag = "millions" -> Contains(s, S_million) \/ Contains(s, <<" ", "m">>)
      [] tag = "thousands" -> Contains(s, S_thousand) \/ Contains(s, <<" ", "k">>)
      [] tag = "percentage" -> HasPercentCue(s)
      [] tag = "ratio" -> Contains(s, S_ratio)
      [] tag = "units" -> TRUE

HasMagnitudeWord(s) ==
    Contains(s, S_billion) \/ Contains(s, S_million) \/ Contains(s, S_thousand)

\* C4: the tag returned is one of the six and is the first, in the order billions,
\* millions, thousands, percentage, ratio, units, whose cue the context holds; a context
\* with a magnitude word and '%', 'percent' or 'ratio' gives a magnitude unit, and
\* 'million' with '%' and no billions cue gives millions.
C4_FirstMatchWins ==
    pc = "returned" =>
        LET c == lower(context)
        IN  /\ \E n \in 1..Len(UnitTags) :
                  /\ unit = UnitTags[n]
                  /\ HasCue(c, UnitTags[n])
                  /\ \A e \in 1..(n - 1) : ~HasCue(c, UnitTags[e])
            /\ (HasMagnitudeWord(c) /\ (HasPercentCue(c) \/ Contains(c, S_ratio)))
                  => unit \in {"billions", "millions", "thousands"}
            /\ Contains(c, S_billion) => unit = "billions"
            /\ (Contains(c, S_million) /\ Contains(c, <<"%">>) /\ ~HasCue(c, "billions"))
                  => unit = "millions"

\* a context with 'million' and '%' has resolved to millions
C4_Witness ==
    /\ pc = "returned"
    /\ Contains(lower(context), S_million)
    /\ Contains(lower(context), <<"%">>)
    /\ unit = "millions"

(***************************************************************************)
(* _load_financial_patterns                                                *)
(***************************************************************************)
\* The registry, in the dict's insertion order. Every pattern is a group of label
\* alternatives, then separators [\s:$] or [\s:] repeated, then the captured number
\* [0-9,]+ \.? [0-9]* , then a suffix: optional whitespace and an optional magnitude
\* word or letter ("magnitude"), an optional % ("percent"), or nothing ("none").
\* "ANY" in a label is the pattern's '.'.
SpaceChars == {" ", "\t", "\n", "\r"}

\* [\s:]
SepChars == SpaceChars \cup {":"}

\* [\s:$]
SepCharsDollar == SpaceChars \cup {":", "$"}

\* [0-9,]
NumberChars == Digits \cup {","}

\* (?:million|billion|thousand|M|B|K) under re.IGNORECASE
MagnitudeSuffixes ==
    << <<"m","i","l","l","i","o","n">>,
       <<"b","i","l","l","i","o","n">>,
       <<"t","h","o","u","s","a","n","d">>,
       <<"m">>, <<"b">>, <<"k">> >>

financial_patterns ==
    <<
      [name |-> "revenue",
       labels |-> << <<"r","e","v","e","n","u","e">>,
                    <<"s","a","l","e","s">>,
                    <<"n","e","t"," ","s","a","l","e","s">>,
                    <<"t","o","t","a","l"," ","r","e","v","e","n","u","e">> >>,
       seps |-> SepCharsDollar,
       suffix |-> "magnitude"],
      [name |-> "net_income",
       labels |-> << <<"n","e","t"," ","i","n","c","o","m","e">>,
                    <<"n","e","t"," ","p","r","o","f","i","t">>,
                    <<"n","e","t"," ","e","a","r","n","i","n","g","s">> >>,
       seps |-> SepCharsDollar,
       suffix |-> "magnitude"],
      [name |-> "eps",
       labels |-> << <<"e","a","r","n","i","n","g","s"," ","p","e","r"," ","s","h","a","r","e">>,
                    <<"e","p","s">> >>,
       seps |-> SepCharsDollar,
       suffix |-> "none"],
      [name |-> "pe_ratio",
       labels |-> << <<"p","/","e"," ","r","a","t","i","o">>,
                    <<"p","e"," ","r","a","t","i","o">>,
                    <<"p","r","i","c","e","ANY","e","a","r","n","i","n","g","s">> >>,
       seps |-> SepChars,
       suffix |-> "none"],
      [name |-> "pb_ratio",
       labels |-> << <<"p","/","b"," ","r","a","t","i","o">>,
                    <<"p","b"," ","r","a","t","i","o">>,
                    <<"p","r","i","c","e","ANY","b","o","o","k">> >>,
       seps |-> SepChars,
       suffix |-> "none"],
      [name |-> "debt_to_equity",
       labels |-> << <<"d","e","b","t","ANY","t","o","ANY","e","q","u","i","t","y">>,
                    <<"d","e","b","t","/","e","q","u","i","t","y">>,
                    <<"d","/","e">> >>,
       seps |-> SepChars,
       suffix |-> "none"],
      [name |-> "current_ratio",
       labels |-> << <<"c","u","r","r","e","n","t"," ","r","a","t","i","o">> >>,
       seps |-> SepChars,
       suffix |-> "none"],
      [name |-> "gross_margin",
       labels |-> << <<"g","r","o","s","s"," ","m","a","r","g","i","n">>,
                    <<"g","r","o","s","s"," ","p","r","o","f","i","t"," ","m","a","r","g","i","n">> >>,
       seps |-> SepChars,
       suffix |-> "percent"],
      [name |-> "operating_margin",
       labels |-> << <<"o","p","e","r","a","t","i","n","g"," ","m","a","r","g","i","n">>,
                    <<"o","p","e","r","a","t","i","n","g"," ","p","r","o","f","i","t"," ","m","a","r","g","i","n">> >>,
       seps |-> SepChars,
       suffix |-> "percent"],
      [name |-> "net_margin",
       labels |-> << <<"n","e","t"," ","m","a","r","g","i","n">>,
                    <<"n","e","t"," ","p","r","o","f","i","t"," ","m","a","r","g","i","n">> >>,
       seps |-> SepChars,
       suffix |-> "percent"],
      [name |-> "roe",
       labels |-> << <<"r","e","t","u","r","n"," ","o","n"," ","e","q","u","i","t","y">>,
                    <<"r","o","e">> >>,
       seps |-> SepChars,
       suffix |-> "percent"],
      [name |-> "roa",
       labels |-> << <<"r","e","t","u","r","n"," ","o","n"," ","a","s","s","e","t","s">>,
                    <<"r","o","a">> >>,
       seps |-> SepChars,
       suffix |-> "percent"],
      [name |-> "cash_flow",
       labels |-> << <<"c","a","s","h"," ","f","l","o","w">>,
                    <<"o","p","e","r","a","t","i","n","g"," ","c","a","s","h"," ","f","l","o","w">> >>,
       seps |-> SepCharsDollar,
       suffix |-> "magnitude"],
      [name |-> "market_cap",
       labels |-> << <<"m","a","r","k","e","t"," ","c","a","p">>,
                    <<"m","a","r","k","e","t"," ","c","a","p","i","t","a","l","i","z","a","t","i","o","n">> >>,
       seps |-> SepCharsDollar,
       suffix |-> "magnitude"]
    >>

RuleCount == Len(financial_patterns)

(***************************************************************************)
(* re.finditer(pattern, text_lower, re.IGNORECASE)                         *)
(***************************************************************************)
\* where the run of characters of a class that starts at i ends (the first index
\* past it): a greedy class*
RECURSIVE RunEnd(_, _, _)
RunEnd(s, i, class) ==
    IF i > Len(s) \/ s[i] \notin class THEN i ELSE RunEnd(s, i + 1, class)

\* one character of a label matches a character of the text: '.' matches any
\* character but a newline; the comparison ignores case
LabelCharMatches(l, c) ==
    IF l = "ANY" THEN c # "\n" ELSE c = l \/ LowerChar(c) = l

\* a label alternative matches at p
RECURSIVE LabelAtFrom(_, _, _, _)
LabelAtFrom(s, label, p, n) ==
    \/ n > Len(label)
    \/ /\ LabelCharMatches(label[n], s[p + n - 1])
       /\ LabelAtFrom(s, label, p, n + 1)

LabelAt(s, label, p) ==
    /\ p + Len(label) - 1 <= Len(s)
    /\ LabelAtFrom(s, label, p, 1)

\* where the optional suffix that starts at e ends
SuffixEnd(s, e, suffix) ==
    CASE suffix = "magnitude" ->
            LET w == RunEnd(s, e, SpaceChars)
                alts == {i \in 1..Len(MagnitudeSuffixes) : LabelAt(s, MagnitudeSuffixes[i], w)}
            IN  IF alts = {} THEN w ELSE w + Len(MagnitudeSuffixes[SetMin(alts)])
      [] suffix = "percent" -> IF e <= Len(s) /\ s[e] = "%" THEN e + 1 ELSE e
      [] suffix = "none" -> e

\* a rule matches at p with the given label alternative: the label, the separators,
\* and at least one number character. The separators and the number characters are
\* disjoint and all that follows the first number character is optional, so the
\* greedy first try decides.
LabelMatches(rule, s, p, label) ==
    /\ LabelAt(s, label, p)
    /\ LET r == RunEnd(s, p + Len(label), rule.seps)
       IN  r <= Len(s) /\ s[r] \in NumberChars

\* the match object of a rule at p with the given label alternative
MatchWithLabel(rule, s, p, label) ==
    LET r == RunEnd(s, p + Len(label), rule.seps)
        n == RunEnd(s, r, NumberChars)
        d == IF n <= Len(s) /\ s[n] = "." THEN n + 1 ELSE n
        e == RunEnd(s, d, Digits)
        end == SuffixEnd(s, e, rule.suffix)
    IN  [found |-> TRUE, start |-> p, end |-> end,
         group0 |-> SubSeq(s, p, end - 1), group1 |-> SubSeq(s, r, e - 1)]

\* the rule matches at p
MatchesAt(rule, s, p) ==
    \E i \in 1..Len(rule.labels) : LabelMatches(rule, s, p, rule.labels[i])

\* the match of a rule at p: the first alternative, in the pattern's order, that matches
MatchAt(rule, s, p) ==
    LET alts == {i \in 1..Len(rule.labels) : LabelMatches(rule, s, p, rule.labels[i])}
    IN  IF alts = {} THEN NoMatch ELSE MatchWithLabel(rule, s, p, rule.labels[SetMin(alts)])

\* the next match of finditer: the leftmost one that starts at pos or later
RECURSIVE NextMatch(_, _, _)
NextMatch(rule, s, pos) ==
    IF pos > Len(s) THEN NoMatch
    ELSE IF MatchesAt(rule, s, pos) THEN MatchAt(rule, s, pos)
    ELSE NextMatch(rule, s, pos + 1)

(***************************************************************************)
(* float(match.group(1).replace(',', ''))                                  *)
(***************************************************************************)
\* str.replace(',', '')
RemoveCommas(s) == SelectSeq(s, LAMBDA c : c # ",")

DigitChars == <<"0", "1", "2", "3", "4", "5", "6", "7", "8", "9">>

DigitValue(c) == (CHOOSE i \in 1..Len(DigitChars) : DigitChars[i] = c) - 1

RECURSIVE DecimalValue(_)
DecimalValue(ds) ==
    IF ds = <<>> THEN 0
    ELSE 10 * DecimalValue(SubSeq(ds, 1, Len(ds) - 1)) + DigitValue(ds[Len(ds)])

\* the digits of a fraction without its trailing zeros
SignificantFraction(ds) ==
    LET nz == {i \in 1..Len(ds) : ds[i] # "0"}
    IN  IF nz = {} THEN <<>> ELSE SubSeq(ds, 1, SetMax(nz))

\* float() of digits with at most one point: ValueError when there is no digit ('' and
\* '.'); else the number, kept as its whole part and the digits of its fraction
float(value_str) ==
    IF \A i \in 1..Len(value_str) : ~IsDigit(value_str[i])
    THEN [ok |-> FALSE, error |-> "ValueError", whole |-> 0, frac |-> <<>>]
    ELSE
        LET dot == RunEnd(value_str, 1, Digits)
        IN  [ok |-> TRUE, error |-> "none",
             whole |-> DecimalValue(SubSeq(value_str, 1, dot - 1)),
             frac |-> SignificantFraction(SubSeq(value_str, dot + 1, Len(value_str)))]

\* a float as the metric holds it
Number(f) == [whole |-> f.whole, frac |-> f.frac]

(***************************************************************************)
(* _extract_financial_metrics                                              *)
(***************************************************************************)
\* confidence 0.7 of a metric, in tenths
METRIC_CONFIDENCE == 7

\* FinancialMetric(name=..., value=..., unit=..., period='current', ...)
FinancialMetric(name, value, u) ==
    [name |-> name, value |-> value, unit |-> u, period |-> "current",
     source |-> "document_extraction", confidence |-> METRIC_CONFIDENCE]

\* mutant of MetricUnit: the unit is resolved on the captured number alone
MetricUnit_FromGroup1(m) == determine_unit(m.group1)

\* unit = self._determine_unit(match.group(0))
MetricUnit(m) == determine_unit(m.group0)

\* mutant of AppendMetric: a record equal to one already present is not added
AppendMetric_Dedup(ms, metric) ==
    IF \E i \in 1..Len(ms) : ms[i] = metric THEN ms ELSE Append(ms, metric)

\* metrics.append(metric)
AppendMetric(ms, metric) == Append(ms, metric)

\* mutant of Caught: the except clause names IndexError only
Caught_IndexErrorOnly(exc) == exc \in {"IndexError"}

\* except (ValueError, IndexError): continue
Caught(exc) == exc \in {"ValueError", "IndexError"}

\* the most fragments a text is made of
MaxTextParts == 3

\* "EPS: 2.15", a newline, "P/E Ratio: 18.3", "Total revenue: $1,234.5 million",
\* "sales ,", "5"
TextVocab ==
    { <<"E","P","S",":"," ","2",".","1","5">>,
      <<"\n">>,
      <<"P","/","E"," ","R","a","t","i","o",":"," ","1","8",".","3">>,
      <<"T","o","t","a","l"," ","r","e","v","e","n","u","e",":"," ","$",
        "1",",","2","3","4",".","5"," ","m","i","l","l","i","o","n">>,
      <<"s","a","l","e","s"," ",",">>,
      <<"5">> }

InitMetrics ==
    /\ text \in Concats(TextVocab, MaxTextParts)
    /\ pc = "start"
    /\ IdleMetrics /\ IdleTables /\ IdleUnit /\ IdleServer

\* metrics = []; text_lower = text.lower()
LowerText ==
    /\ pc = "start"
    /\ text_lower' = lower(text)
    /\ metrics' = <<>>
    /\ ruleIdx' = 1
    /\ scanPos' = 1
    /\ pc' = "scan"
    /\ UNCHANGED <<text, match, error, tableVars, unitVars, serverVars>>

\* for match in matches: finditer gives the next match of the current pattern, or is
\* exhausted and the outer loop goes to the next registry entry
NextOfFinditer ==
    /\ pc = "scan"
    /\ ruleIdx <= RuleCount
    /\ LET m == NextMatch(financial_patterns[ruleIdx], text_lower, scanPos)
       IN  IF m.found
           THEN /\ match' = m
                /\ scanPos' = m.end
                /\ pc' = "matched"
                /\ UNCHANGED ruleIdx
           ELSE /\ ruleIdx' = ruleIdx + 1
                /\ scanPos' = 1
                /\ UNCHANGED <<match, pc>>
    /\ UNCHANGED <<text, text_lower, metrics, error, tableVars, unitVars, serverVars>>

\* the try block: the value parses and the record is appended
AppendRecord ==
    /\ pc = "matched"
    /\ LET value == float(RemoveCommas(match.group1))
       IN  /\ value.ok
           /\ metrics' = AppendMetric(metrics,
                  FinancialMetric(financial_patterns[ruleIdx].name, Number(value),
                                  MetricUnit(match)))
    /\ pc' = "scan"
    /\ UNCHANGED <<text, text_lower, match, ruleIdx, scanPos, error,
                   tableVars, unitVars, serverVars>>

\* the try block: float() raises; the except clause continues with the next match,
\* and an exception it does not name leaves the function
SkipMatch ==
    /\ pc = "matched"
    /\ LET value == float(RemoveCommas(match.group1))
       IN  /\ ~value.ok
           /\ IF Caught(value.error)
              THEN pc' = "scan" /\ error' = error
              ELSE pc' = "raised" /\ error' = value.error
    /\ UNCHANGED <<text, text_lower, match, metrics, ruleIdx, scanPos,
                   tableVars, unitVars, serverVars>>

\* return metrics
ReturnMetrics ==
    /\ pc = "scan"
    /\ ruleIdx > RuleCount
    /\ pc' = "done"
    /\ UNCHANGED <<text, metricVars, tableVars, unitVars, serverVars>>

NextMetrics == LowerText \/ NextOfFinditer \/ AppendRecord \/ SkipMatch \/ ReturnMetrics

SpecMetrics == InitMetrics /\ [][NextMetrics]_vars

(***************************************************************************)
(* Properties of _extract_financial_metrics                                *)
(***************************************************************************)
\* all the matches of a rule in a text, left to right, none overlapping
RECURSIVE AllMatches(_, _, _)
AllMatches(rule, s, pos) ==
    LET m == NextMatch(rule, s, pos)
    IN  IF ~m.found THEN <<>> ELSE <<m>> \o AllMatches(rule, s, m.end)

\* the captured number of a match parses
Parses(m) == float(RemoveCommas(m.group1)).ok

\* name, value and the fixed fields of the record a parsed match gives
ExpectedRecord(rule, m) ==
    [name |-> rule.name, value |-> Number(float(RemoveCommas(m.group1))),
     period |-> "current", source |-> "document_extraction", confidence |-> 7]

\* the records of the rules k.., in registry order, each rule's in match order
RECURSIVE ExpectedFrom(_, _)
ExpectedFrom(k, s) ==
    IF k > Len(financial_patterns) THEN <<>>
    ELSE LET rule == financial_patterns[k]
             ok == SelectSeq(AllMatches(rule, s, 1), Parses)
         IN  [i \in 1..Len(ok) |-> ExpectedRecord(rule, ok[i])] \o ExpectedFrom(k + 1, s)

\* a record without its unit
WithoutUnit(r) ==
    [name |-> r.name, value |-> r.value, period |-> r.period,
     source |-> r.source, confidence |-> r.confidence]

RegistryNames ==
    << "revenue", "net_income", "eps", "pe_ratio", "pb_ratio", "debt_to_equity",
       "current_ratio", "gross_margin", "operating_margin", "net_margin", "roe", "roa",
       "cash_flow", "market_cap" >>

\* C5: the records returned are, in the registry's key order and then left to right in
\* the text, one per match whose number parses, with nothing left out for being a
\* repeat; every record has period 'current', source 'document_extraction' and
\* confidence 0.7.
C5_RegistryThenTextOrder ==
    /\ [k \in 1..Len(financial_patterns) |-> financial_patterns[k].name] = RegistryNames
    /\ \A i \in 1..Len(metrics) :
          /\ metrics[i].period = "current"
          /\ metrics[i].source = "document_extraction"
          /\ metrics[i].confidence = 7
    /\ pc = "done" =>
          [i \in 1..Len(metrics) |-> WithoutUnit(metrics[i])] = ExpectedFrom(1, lower(text))

\* "P/E Ratio: 18.3" before two "EPS: 2.15": the eps records come first, both are
\* kept, and the pe_ratio record is last
C5_Witness ==
    /\ pc = "done"
    /\ Len(metrics) = 3
    /\ text[1] = "P"
    /\ metrics[1] = metrics[2]
    /\ metrics[1].name = "eps"
    /\ metrics[3].name = "pe_ratio"

\* C6: the extraction never raises; a match whose number does not parse gives no record
\* and does not stop the scan: every other match of every rule has its record, and a
\* text with no match gives the empty sequence.
C6_ParseFailureSkipped ==
    /\ error = "none"
    /\ pc # "raised"
    /\ pc = "done" =>
          LET s == lower(text)
          IN  /\ \A k \in 1..Len(financial_patterns) :
                    LET ms == AllMatches(financial_patterns[k], s, 1)
                        ok == SelectSeq(ms, Parses)
                        mine == SelectSeq(metrics,
                                    LAMBDA r : r.name = financial_patterns[k].name)
                    IN  /\ Len(mine) = Len(ok)
                        /\ \A i \in 1..Len(ok) :
                              mine[i].value = Number(float(RemoveCommas(ok[i].group1)))
              /\ (\A k \in 1..Len(financial_patterns) :
                    AllMatches(financial_patterns[k], s, 1) = <<>>) => metrics = <<>>

\* "sales ,", whose capture is a comma alone, was skipped, and the later match of the
\* same rule and the match of a later rule have their records
C6_Witness ==
    /\ pc = "done"
    /\ Len(AllMatches(financial_patterns[1], lower(text), 1)) = 2
    /\ ~Parses(AllMatches(financial_patterns[1], lower(text), 1)[1])
    /\ Len(metrics) = 2
    /\ metrics[1].name = "revenue"
    /\ metrics[2].name = "eps"

\* 'EPS: 2.15\nP/E Ratio: 18.3'
Example_EpsPe ==
    <<"E","P","S",":"," ","2",".","1","5","\n",
      "P","/","E"," ","R","a","t","i","o",":"," ","1","8",".","3">>

\* 'Total revenue: $1,234.5 million'
Example_Revenue ==
    <<"T","o","t","a","l"," ","r","e","v","e","n","u","e",":"," ","$",
      "1",",","2","3","4",".","5"," ","m","i","l","l","i","o","n">>

\* C7: the unit of a record is resolved on the whole span of its match (group 0);
\* 'EPS: 2.15\nP/E Ratio: 18.3' gives exactly eps 2.15 'units' and pe_ratio 18.3
\* 'ratio', and 'Total revenue: $1,234.5 million' gives exactly revenue 1234.5
\* 'millions'.
C7_UnitFromWholeMatch ==
    /\ (pc \in {"scan", "done"} /\ match.found /\ Parses(match)) =>
          /\ metrics # <<>>
          /\ match.group0 = SubSeq(text_lower, match.start, match.end - 1)
          /\ metrics[Len(metrics)].unit = determine_unit(match.group0)
    /\ (pc = "done" /\ text = Example_EpsPe) =>
          metrics = << [name |-> "eps", value |-> [whole |-> 2, frac |-> <<"1", "5">>],
                        unit |-> "units", period |-> "current",
                        source |-> "document_extraction", confidence |-> 7],
                       [name |-> "pe_ratio", value |-> [whole |-> 18, frac |-> <<"3">>],
                        unit |-> "ratio", period |-> "current",
                        source |-> "document_extraction", confidence |-> 7] >>
    /\ (pc = "done" /\ text = Example_Revenue) =>
          metrics = << [name |-> "revenue", value |-> [whole |-> 1234, frac |-> <<"5">>],
                        unit |-> "millions", period |-> "current",
                        source |-> "document_extraction", confidence |-> 7] >>

\* the extraction of 'EPS: 2.15\nP/E Ratio: 18.3' has returned its two records
C7_Witness ==
    /\ pc = "done"
    /\ text = Example_EpsPe
    /\ Len(metrics) = 2
    /\ metrics[2].unit = "ratio"

(***************************************************************************)
(* The file system the handlers use: open(path, "wb"), write, os.path.exists *)
(* and os.unlink.  dir maps a path to its inode (0: no such file), data    *)
(* holds each inode's bytes; an unlinked inode keeps its bytes for the     *)
(* handles still open on it.                                               *)
(***************************************************************************)
\* f"/tmp/{file.filename}"
TempPath(filename) == <<"/", "t", "m", "p", "/">> \o filename

\* os.path.exists(path)
Exists(f, path) == f.dir[path] # 0

\* open(path, "wb"): the file is created, or truncated when it exists; the handle is
\* the inode
OpenWb(f, path) ==
    IF Exists(f, path)
    THEN [fs |-> [f EXCEPT !.data[f.dir[path]] = <<>>], handle |-> f.dir[path]]
    ELSE [fs |-> [dir |-> [f.dir EXCEPT ![path] = Len(f.data) + 1],
                  data |-> Append(f.data, <<>>)],
          handle |-> Len(f.data) + 1]

\* buffer.write(content) on a handle just opened: the bytes go to offset 0 of the inode
Write(f, handle, content) ==
    [f EXCEPT !.data[handle] = content \o SubSeq(@, Len(content) + 1, Len(@))]

\* os.unlink(path)
Unlink(f, path) == [f EXCEPT !.dir[path] = 0]

\* the bytes a reader of the path gets
Read(f, path) == f.data[f.dir[path]]

(***************************************************************************)
(* parse_document and upload_and_parse.  The raise statements of parse_pdf, *)
(* parse_excel and parse_csv (HTTPException(status_code=500, f"...")) are   *)
(* modelled as the HTTP 500 they are written to raise.                      *)
(***************************************************************************)
S_pdf == <<"p", "d", "f">>
S_excel == <<"e", "x", "c", "e", "l">>
S_xlsx == <<"x", "l", "s", "x">>
S_xls == <<"x", "l", "s">>
S_csv == <<"c", "s", "v">>
S_unknown == <<"u", "n", "k", "n", "o", "w", "n">>

\* an HTTP response; cause is the status of the exception that str(e) of the detail
\* was taken from (0: none), extracted the extracted_text of a ParseResponse
Response(status, detail, cause, extracted) ==
    [status |-> status, detail |-> detail, cause |-> cause, extracted |-> extracted]

\* the parser parse_document dispatches to for request.file_type.lower()
ParserFor(file_type) ==
    IF lower(file_type) = S_pdf THEN "parse_pdf"
    ELSE IF lower(file_type) \in {S_excel, S_xlsx, S_xls} THEN "parse_excel"
    ELSE IF lower(file_type) = S_csv THEN "parse_csv"
    ELSE "none"

\* parse_pdf, parse_excel, parse_csv: an empty file is unreadable and gives HTTP 500;
\* any other content is a document whose text is extracted
RunParser(parser, content) ==
    IF content = <<>>
    THEN Response(500, "parsing failed", 0, <<>>)
    ELSE Response(200, "", 0, content)

\* parse_document(request): the response (a status other than 200 is the HTTPException
\* that leaves the handler) and the parser invocations made
parse_document(f, calls, caller, file_path, file_type) ==
    IF ~Exists(f, file_path)
    THEN [response |-> Response(404, "File not found", 0, <<>>), calls |-> calls]
    ELSE IF ParserFor(file_type) = "none"
    THEN [response |-> Response(400, "Unsupported file type", 0, <<>>), calls |-> calls]
    ELSE [response |-> RunParser(ParserFor(file_type), Read(f, file_path)),
          calls |-> Append(calls, [by |-> caller, parser |-> ParserFor(file_type),
                                   path |-> file_path])]

\* Path(file.filename).suffix: from the last dot, unless it is the first or the last
\* character of the name
Suffix(name) ==
    LET dots == {i \in 1..Len(name) : name[i] = "."}
    IN  IF dots = {} \/ SetMax(dots) = 1 \/ SetMax(dots) = Len(name) THEN <<>>
        ELSE SubSeq(name, SetMax(dots), Len(name))

\* file_type_map.get(file_extension, 'unknown')
FileTypeOf(extension) ==
    IF extension = <<".">> \o S_pdf THEN S_pdf
    ELSE IF extension = <<".">> \o S_xlsx THEN S_excel
    ELSE IF extension = <<".">> \o S_xls THEN S_excel
    ELSE IF extension = <<".">> \o S_csv THEN S_csv
    ELSE S_unknown

\* the except clause of upload_and_parse: the temp file is removed when it exists and
\* HTTPException(status_code=500, detail=str(e)) is raised
UploadFailed(f, calls, temp_path, e) ==
    [fs |-> IF Exists(f, temp_path) THEN Unlink(f, temp_path) ELSE f,
     response |-> Response(500, e.detail, e.status, <<>>),
     calls |-> calls]

\* upload_and_parse from the point where file.read() has returned to its end: the
\* write, the dispatch on the extension, parse_document, and the clean-up
UploadAfterRead(f, calls, caller, handle, filename, content) ==
    LET temp_path == TempPath(filename)
        written == Write(f, handle, content)
        file_type == FileTypeOf(lower(Suffix(filename)))
        parsed == parse_document(written, calls, caller, temp_path, file_type)
    IN  IF file_type = S_unknown
        THEN UploadFailed(written, calls, temp_path,
                          Response(400, "Unsupported file type", 0, <<>>))
        ELSE IF parsed.response.status # 200
        THEN UploadFailed(written, parsed.calls, temp_path, parsed.response)
        ELSE [fs |-> Unlink(written, temp_path),
              response |-> parsed.response,
              calls |-> parsed.calls]

\* the requests in flight at once
MaxCalls == 2

Calls == 1..MaxCalls

\* "a.csv", "a.txt", "b.PDF"
Filenames ==
    { <<"a", ".", "c", "s", "v">>,
      <<"a", ".", "t", "x", "t">>,
      <<"b", ".", "P", "D", "F">> }

\* the uploaded documents: two bytes and one byte
Contents == { <<"A", "A">>, <<"B">> }

\* "/r": a file that is there from the start
StoredPath == <<"/", "r">>

Paths == { TempPath(n) : n \in Filenames } \cup { StoredPath }

\* the file_type values of a direct request: "pdf", "XLSX", "csv", "txt"
FileTypes ==
    { <<"p", "d", "f">>, <<"X", "L", "S", "X">>, <<"c", "s", "v">>, <<"t", "x", "t">> }

NoResponse == Response(0, "", 0, <<>>)

IdleCall ==
    [pc |-> "idle", kind |-> "none", filename |-> <<>>, content |-> <<>>,
     file_path |-> <<>>, file_type |-> <<>>, handle |-> 0, response |-> NoResponse]

InitFs ==
    [dir |-> [path \in Paths |-> IF path = StoredPath THEN 1 ELSE 0],
     data |-> << <<"R">> >>]

InitServer ==
    /\ fs = InitFs
    /\ proc = [c \in Calls |-> IdleCall]
    /\ parser_calls = <<>>
    /\ text = <<>>
    /\ pc = "serving"
    /\ IdleTables /\ IdleUnit /\ IdleMetrics

\* upload_and_parse up to its first await: the temp file is opened for writing and the
\* handler waits for file.read()
UploadOpen(c) ==
    /\ proc[c].pc = "idle"
    /\ \E filename \in Filenames : \E content \in Contents :
          LET opened == OpenWb(fs, TempPath(filename))
          IN  /\ fs' = opened.fs
              /\ proc' = [proc EXCEPT ![c] =
                    [IdleCall EXCEPT !.pc = "reading", !.kind = "upload",
                                     !.filename = filename, !.content = content,
                                     !.handle = opened.handle]]
    /\ UNCHANGED <<text, pc, parser_calls, tableVars, unitVars, metricVars>>

\* file.read() has returned: the rest of upload_and_parse runs without suspending
\* (the coroutines it awaits do not wait on anything)
UploadResume(c) ==
    /\ proc[c].pc = "reading"
    /\ LET done == UploadAfterRead(fs, parser_calls, c, proc[c].handle,
                                   proc[c].filename, proc[c].content)
       IN  /\ fs' = done.fs
           /\ parser_calls' = done.calls
           /\ proc' = [proc EXCEPT ![c].pc = "done", ![c].response = done.response]
    /\ UNCHANGED <<text, pc, tableVars, unitVars, metricVars>>

\* a request to /parse: parse_document runs without suspending
ParseDocument(c) ==
    /\ proc[c].pc = "idle"
    /\ \E file_path \in Paths : \E file_type \in FileTypes :
          LET done == parse_document(fs, parser_calls, c, file_path, file_type)
          IN  /\ parser_calls' = done.calls
              /\ proc' = [proc EXCEPT ![c] =
                    [IdleCall EXCEPT !.pc = "done", !.kind = "parse",
                                     !.file_path = file_path, !.file_type = file_type,
                                     !.response = done.response]]
    /\ UNCHANGED <<text, pc, fs, tableVars, unitVars, metricVars>>

NextServer == \E c \in Calls : UploadOpen(c) \/ UploadResume(c) \/ ParseDocument(c)

SpecServer == InitServer /\ [][NextServer]_vars

(***************************************************************************)
(* Properties of the server                                                *)
(***************************************************************************)
\* the request of a call asks for a format the system does not recognize
Unsupported(call) ==
    \/ call.kind = "parse" /\ ParserFor(call.file_type) = "none"
    \/ call.kind = "upload" /\ FileTypeOf(lower(Suffix(call.filename))) = S_unknown

\* C8: a request for a format the system does not recognize ends in HTTP 400
\* 'Unsupported file type' on both entry points (parse_document with an existing file,
\* upload_and_parse by the extension), with no parser invoked for it.
C8_UnsupportedFormatIs400 ==
    \A c \in Calls :
        (proc[c].pc = "done" /\ Unsupported(proc[c]) /\ proc[c].response.status # 404) =>
            /\ proc[c].response.status = 400
            /\ proc[c].response.detail = "Unsupported file type"
            /\ \A n \in 1..Len(parser_calls) : parser_calls[n].by # c

\* what an upload returns when it runs alone
UploadAlone(filename, content) ==
    UploadAfterRead(OpenWb(InitFs, TempPath(filename)).fs, <<>>, 0,
                    OpenWb(InitFs, TempPath(filename)).handle, filename, content).response

\* C10: concurrent upload_and_parse calls do not interfere: whatever the interleaving at
\* the await points, each call returns what it would return when run alone, and no
\* call's temp file is removed by another call while it is still needed.
C10_UploadsDoNotInterfere ==
    \A c \in Calls :
        /\ (proc[c].kind = "upload" /\ proc[c].pc = "done") =>
              proc[c].response = UploadAlone(proc[c].filename, proc[c].content)
        /\ (proc[c].kind = "upload" /\ proc[c].pc = "reading") =>
              fs.dir[TempPath(proc[c].filename)] = proc[c].handle

====
